---- MODULE Spec2Model ----
(***************************************************************************)
(* Model of the cluster-autoscaler priority-expander autoconfig            *)
(* (src/main.go): main's poll loop, mainLoop's evaluation of the ASGs,     *)
(* the rendering of the priorities text and the reconcile of the          *)
(* ConfigMap.                                                              *)
(*                                                                         *)
(* Go strings are sequences of one-character strings, so that              *)
(* strings.Contains, strings.Split and fmt.Sprintf are computed and not    *)
(* assumed.  A nil pointer is the empty sequence <<>>, a non-nil pointer   *)
(* to v is <<v>>.                                                          *)
(***************************************************************************)
EXTENDS Integers, Sequences, FiniteSets, TLC

\* ------------------------------------------------------------------ bounds
MaxGroups == 2     \* ASGs the Group Source returns in one cycle
MaxFree   == 1     \* AvailableIpAddressCount of a subnet that is not exhausted

\* ------------------------------------------------------------- Go strings
Nil == <<>>
Ptr(v) == <<v>>
Deref(p) == p[1]

\* faulty variant of Contains: true when s holds any one character of chars
ContainsAnyChar(s, chars) ==
    \E i \in DOMAIN s : \E j \in DOMAIN chars : s[i] = chars[j]

\* strings.Contains(s, substr)
Contains(s, substr) ==
    \E k \in 0..(Len(s) - Len(substr)) : SubSeq(s, k + 1, k + Len(substr)) = substr

\* index of the first occurrence of character c in s, 0 when absent
RECURSIVE IndexFrom(_, _, _)
IndexFrom(s, c, k) ==
    IF k > Len(s) THEN 0
    ELSE IF s[k] = c THEN k
    ELSE IndexFrom(s, c, k + 1)

\* strings.Split(s, ","): the fields between the commas; Split("") = [""]
RECURSIVE Split(_)
Split(s) ==
    LET k == IndexFrom(s, ",", 1) IN
    IF k = 0 THEN <<s>>
    ELSE <<SubSeq(s, 1, k - 1)>> \o Split(SubSeq(s, k + 1, Len(s)))

DigitChars == <<"0", "1", "2", "3", "4", "5", "6", "7", "8", "9">>

\* fmt.Sprintf("%d", n) for n >= 0
RECURSIVE Itoa(_)
Itoa(n) ==
    IF n < 10 THEN <<DigitChars[n + 1]>>
    ELSE Itoa(n \div 10) \o <<DigitChars[(n % 10) + 1]>>

\* ------------------------------------------------------- the environment
SubnetIds == {<<"s">>, <<"t">>}

\* Subnet.AvailableIpAddressCount: a subnet is exhausted or has MaxFree addresses left
FreeCounts == {0, MaxFree}

\* autoscaling.Group, the fields mainLoop reads.  LaunchTemplate and
\* MixedInstancesPolicy are pointers; when set, the model keeps the
\* LaunchTemplateName they lead to.
Group(name, lt, mip, zones) ==
    [AutoScalingGroupName |-> name,
     LaunchTemplate       |-> lt,
     MixedInstancesPolicy |-> mip,
     VPCZoneIdentifier    |-> zones]

\* The ASGs of the region: three names; direct and mixed-instances
\* templates; one, two and no subnets; one record without any template.
Groups ==
    {Group(<<"a", "b">>,      Ptr(<<"x">>), Nil,          <<"s">>),
     Group(<<"c", "a", "b">>, Nil,          Ptr(<<"x">>), <<"s", ",", "t">>),
     Group(<<"b", "a">>,      Nil,          Ptr(<<"y">>), <<"t">>),
     Group(<<"a", "b">>,      Nil,          Nil,          <<"s">>),
     Group(<<"c", "a", "b">>, Ptr(<<"x">>), Nil,          <<>>)}

\* what DescribeAutoScalingGroupsPages can deliver: up to MaxGroups groups,
\* ASG names unique within the region
Fleets ==
    {f \in UNION {[1..n -> Groups] : n \in 0..MaxGroups} :
        \A i, j \in 1..Len(f) :
            i # j => f[i].AutoScalingGroupName # f[j].AutoScalingGroupName}

FilterValues == {<<>>, <<"a", "b">>}
TemplateFilterValues == {<<>>, <<"x">>}

\* ------------------------------------------------------------------ state
VARIABLES
    asgContains, ltContains, catchAll, debug, skipCMCreation,  \* configuration
    groups,          \* the ASGs the Group Source delivers in this cycle
    subnetFree,      \* subnet id -> AvailableIpAddressCount in this cycle
    store,           \* the ConfigMap caNamespace/caPriorityExpander: Nil or Ptr(object)
    pc,              \* position of the process in main / mainLoop
    records,         \* result of awsSearchEC2ASGByName
    idx,             \* position of the range loop over records
    caPriorities,    \* map[int][]string
    configMapExists,
    data,            \* map[string]string handed to the store
    cm,              \* the object the second Get returned
    panicked,        \* the runtime error that ended the process, "" when none
    log,             \* what this cycle has printed (outcome and error lines)
    calls,           \* the requests this cycle has sent to the store, with their results
    store0           \* the store as it was when this cycle started

cfgVars   == <<asgContains, ltContains, catchAll, debug, skipCMCreation>>
worldVars == <<groups, subnetFree>>
localVars == <<records, idx, caPriorities, configMapExists, data, cm>>
vars == <<cfgVars, worldVars, localVars, store, pc, panicked, log, calls, store0>>

EmptyMap == [k \in {} |-> <<>>]

\* ConfigMap objects that may sit in the store before the first cycle
StaleObject  == [Data |-> ("priorities" :> <<"9", ":", "\n">>) @@ ("legacy" :> <<"z">>)]
InitialStores == {Nil, Ptr(StaleObject)}

Init ==
    /\ asgContains \in FilterValues
    /\ ltContains \in TemplateFilterValues
    /\ catchAll \in BOOLEAN
    /\ debug \in BOOLEAN
    /\ skipCMCreation \in BOOLEAN
    /\ groups = <<>>
    /\ subnetFree = [s \in SubnetIds |-> 0]
    /\ store \in InitialStores
    /\ pc = "main"
    /\ records = <<>>
    /\ idx = 1
    /\ caPriorities = EmptyMap
    /\ configMapExists = FALSE
    /\ data = EmptyMap
    /\ cm = Nil
    /\ panicked = ""
    /\ log = <<>>
    /\ calls = <<>>
    /\ store0 = store

\* faulty variant of RunCycle: the tier map of the call before is kept
RunCycleKeepingTiers ==
    /\ pc = "main"
    /\ groups' \in Fleets
    /\ subnetFree' \in [SubnetIds -> FreeCounts]
    /\ caPriorities' = caPriorities
    /\ records' = <<>>
    /\ idx' = 1
    /\ configMapExists' = FALSE
    /\ data' = EmptyMap
    /\ cm' = Nil
    /\ log' = <<"Running CA autoconfig...">>
    /\ calls' = <<>>
    /\ store0' = store
    /\ pc' = "list"
    /\ UNCHANGED <<cfgVars, store, panicked>>

\* faulty variant of RunCycle: mainLoop is started without waiting for the
\* call under way to return
RunCycleOverlapping ==
    /\ pc \in {"main", "lookup", "reconcile", "update"}
    /\ groups' \in Fleets
    /\ subnetFree' \in [SubnetIds -> FreeCounts]
    /\ caPriorities' = EmptyMap
    /\ records' = <<>>
    /\ idx' = 1
    /\ configMapExists' = FALSE
    /\ data' = EmptyMap
    /\ cm' = Nil
    /\ log' = <<"Running CA autoconfig...">>
    /\ calls' = <<>>
    /\ store0' = store
    /\ pc' = "list"
    /\ UNCHANGED <<cfgVars, store, panicked>>

\* ------------------------------------------------------------- main, l.56
\* main: the head of the for loop prints and calls mainLoop, which starts
\* with fresh locals and a fresh caPriorities.  The Group Source and the
\* Capacity Source answer this cycle from the fleet and the counts of this
\* moment.
RunCycle ==
    /\ pc = "main"
    /\ groups' \in Fleets
    /\ subnetFree' \in [SubnetIds -> FreeCounts]
    /\ caPriorities' = EmptyMap
    /\ records' = <<>>
    /\ idx' = 1
    /\ configMapExists' = FALSE
    /\ data' = EmptyMap
    /\ cm' = Nil
    /\ log' = <<"Running CA autoconfig...">>
    /\ calls' = <<>>
    /\ store0' = store
    /\ pc' = "list"
    /\ UNCHANGED <<cfgVars, store, panicked>>

\* the records the page callback keeps: the groups whose name contains name
RECURSIVE MatchingGroups(_, _)
MatchingGroups(page, name) ==
    IF page = <<>> THEN <<>>
    ELSE LET rest == MatchingGroups(Tail(page), name) IN
         IF Contains(Head(page).AutoScalingGroupName, name)
         THEN <<Head(page)>> \o rest
         ELSE rest

\* awsSearchEC2ASGByName: an error of the paging call is printed and the
\* records collected up to then are returned all the same.
awsSearchEC2ASGByName ==
    /\ pc = "list"
    /\ records' = MatchingGroups(groups, asgContains)
    /\ \E err \in BOOLEAN :
        log' = IF err THEN Append(log, "Error searching EC2 ASGs by name") ELSE log
    /\ idx' = 1
    /\ pc' = "range"
    /\ UNCHANGED <<cfgVars, worldVars, store, caPriorities, configMapExists,
                   data, cm, panicked, calls, store0>>

\* ------------------------------------------------- mainLoop, l.85 to l.119
\* l.91: the record has a template to read the name from
HasTemplate(asg) == asg.LaunchTemplate # Nil \/ asg.MixedInstancesPolicy # Nil

\* l.90-95: ltName
ltNameOf(asg) ==
    IF asg.LaunchTemplate # Nil
    THEN Deref(asg.LaunchTemplate)
    ELSE Deref(asg.MixedInstancesPolicy)

\* DescribeSubnets answers for the subnets the Capacity Source knows
SubnetKnown(subnetID) == subnetID \in DOMAIN subnetFree

\* l.101-107: freeIPs, summed over the subnet ids in the order of the list
RECURSIVE SumFreeIPs(_, _)
SumFreeIPs(subnetIDs, acc) ==
    IF subnetIDs = <<>> THEN acc
    ELSE SumFreeIPs(Tail(subnetIDs), acc + subnetFree[Head(subnetIDs)])

freeIPsOf(asg) == SumFreeIPs(Split(asg.VPCZoneIdentifier), 0)

\* faulty variant of AddToTier: the tier is replaced, not appended to
AddToTierReplacing(m, key, name) == (key :> <<name>>) @@ m

\* l.109-113: caPriorities[freeIPs] gets the name, appended to the tier
AddToTier(m, key, name) ==
    IF key \in DOMAIN m
    THEN [m EXCEPT ![key] = Append(@, name)]
    ELSE (key :> <<name>>) @@ m

\* a Go runtime panic: nothing recovers it, the process ends
Panic(msg) ==
    /\ pc' = "crashed"
    /\ panicked' = msg
    /\ UNCHANGED <<cfgVars, worldVars, localVars, store, log, calls, store0>>

\* one iteration of the range loop over the records
EvalASG ==
    /\ pc = "range"
    /\ idx <= Len(records)
    /\ LET asg == records[idx] IN
       IF ~HasTemplate(asg)
       THEN Panic("nil pointer dereference: MixedInstancesPolicy")
       ELSE IF ~Contains(ltNameOf(asg), ltContains)
       THEN /\ idx' = idx + 1
            /\ UNCHANGED <<cfgVars, worldVars, store, pc, records, caPriorities,
                           configMapExists, data, cm, panicked, log, calls, store0>>
       ELSE \/ /\ \A k \in DOMAIN Split(asg.VPCZoneIdentifier) :
                     SubnetKnown(Split(asg.VPCZoneIdentifier)[k])
               /\ caPriorities' =
                     AddToTier(caPriorities, freeIPsOf(asg), asg.AutoScalingGroupName)
               /\ idx' = idx + 1
               /\ UNCHANGED <<cfgVars, worldVars, store, pc, records,
                              configMapExists, data, cm, panicked, log, calls, store0>>
            \* a DescribeSubnets call failed: its error is dropped and
            \* subnet.Subnets[0] indexes an empty slice
            \/ Panic("index out of range: subnet.Subnets[0]")

\* l.121-131: the Kubernetes client; on failure mainLoop prints and returns
BuildKubeClient ==
    /\ pc = "range"
    /\ idx > Len(records)
    /\ \E outcome \in {"ok", "config", "clientset"} :
        /\ pc' = IF outcome = "ok" THEN "lookup" ELSE "returned"
        /\ log' = CASE outcome = "ok" -> log
                    [] outcome = "config" -> Append(log, "Unable to load kube config")
                    [] outcome = "clientset" -> Append(log, "Unable to create Kubernetes client")
    /\ UNCHANGED <<cfgVars, worldVars, localVars, store, panicked, calls, store0>>

\* ------------------------------------------------ mainLoop, l.133 to l.138
\* what the store answers to a Get: the object, NotFound, or a transport or
\* permission error
GetResults == {IF store = Nil THEN "NotFound" ELSE "ok", "error"}

\* l.133-138: configMapExists is true exactly when the Get returned no error
GetConfigMap ==
    /\ pc = "lookup"
    /\ \E result \in GetResults :
        /\ configMapExists' = (result = "ok")
        /\ calls' = Append(calls, [op |-> "Get", result |-> result])
    /\ pc' = "save"
    /\ UNCHANGED <<cfgVars, worldVars, store, records, idx, caPriorities, data, cm,
                   panicked, log, store0>>

\* ------------------------------------------------ mainLoop, l.140 to l.161
\* l.144-146: ranging over a Go map yields its keys in an unspecified order
KeyOrders(m) ==
    {ks \in [1..Cardinality(DOMAIN m) -> DOMAIN m] :
        \A i, j \in 1..Cardinality(DOMAIN m) : i # j => ks[i] # ks[j]}

\* insert key into a descending sequence
RECURSIVE InsertDesc(_, _)
InsertDesc(key, sorted) ==
    IF sorted = <<>> THEN <<key>>
    ELSE IF key >= Head(sorted) THEN <<key>> \o sorted
    ELSE <<Head(sorted)>> \o InsertDesc(key, Tail(sorted))

RECURSIVE SortDesc(_)
SortDesc(keys) ==
    IF keys = <<>> THEN <<>>
    ELSE InsertDesc(Head(keys), SortDesc(Tail(keys)))

\* faulty variant of SortReverse: the keys stay in map order
KeysUnsorted(keys) == keys

\* l.147: sort.Sort(sort.Reverse(sort.IntSlice(keys)))
SortReverse(keys) == SortDesc(keys)

\* l.151-153: one "  - %s\n" line per name of the tier, in slice order
RECURSIVE TierLines(_)
TierLines(asgs) ==
    IF asgs = <<>> THEN <<>>
    ELSE <<" ", " ", "-", " ">> \o Head(asgs) \o <<"\n">> \o TierLines(Tail(asgs))

\* l.149-154: "%d:\n" and the lines of the tier, for each key in turn
RECURSIVE TierBlocks(_, _)
TierBlocks(keys, m) ==
    IF keys = <<>> THEN <<>>
    ELSE Itoa(Head(keys)) \o <<":", "\n">> \o TierLines(m[Head(keys)])
         \o TierBlocks(Tail(keys), m)

\* l.156-159
CatchAllBlock == <<"1", ":", "\n", " ", " ", "-", " ", ".", "*", "\n">>

\* faulty variant of RenderPriorities: nothing is rendered when there is no tier
RenderPrioritiesUnlessEmpty(keys, m, withCatchAll) ==
    IF keys = <<>> THEN <<>>
    ELSE TierBlocks(SortReverse(keys), m) \o (IF withCatchAll THEN CatchAllBlock ELSE <<>>)

\* l.142-159: the priorities text
RenderPriorities(keys, m, withCatchAll) ==
    TierBlocks(SortReverse(keys), m) \o (IF withCatchAll THEN CatchAllBlock ELSE <<>>)

\* l.140-165
SaveConfig ==
    /\ pc = "save"
    /\ \E keys \in KeyOrders(caPriorities) :
        data' = ("priorities" :> RenderPriorities(keys, caPriorities, catchAll))
    /\ pc' = "reconcile"
    /\ UNCHANGED <<cfgVars, worldVars, store, records, idx, caPriorities,
                   configMapExists, cm, panicked, log, calls, store0>>

\* ------------------------------------------------ mainLoop, l.167 to l.198
\* faulty variant of SkipCreation: the flag also stops the cycle when the
\* ConfigMap exists
SkipCreationAlways ==
    /\ pc = "reconcile"
    /\ skipCMCreation
    /\ log' = Append(log, "Skipping creation of configmap")
    /\ pc' = "returned"
    /\ UNCHANGED <<cfgVars, worldVars, localVars, store, panicked, calls, store0>>

\* l.168-169
SkipCreation ==
    /\ pc = "reconcile"
    /\ ~configMapExists
    /\ skipCMCreation
    /\ log' = Append(log, "Skipping creation of configmap")
    /\ pc' = "returned"
    /\ UNCHANGED <<cfgVars, worldVars, localVars, store, panicked, calls, store0>>

\* what the store answers to a Create
CreateResults == {IF store = Nil THEN "ok" ELSE "AlreadyExists", "error"}

\* faulty variant of CreateConfigMap: skipCMCreation is not consulted
CreateConfigMapAlways ==
    /\ pc = "reconcile"
    /\ ~configMapExists
    /\ \E result \in CreateResults :
        /\ store' = IF result = "ok" THEN Ptr([Data |-> data]) ELSE store
        /\ calls' = Append(calls, [op |-> "Create", result |-> result])
        /\ log' = Append(log, IF result = "ok" THEN "Created configmap"
                                               ELSE "Error creating configmap")
    /\ pc' = "returned"
    /\ UNCHANGED <<cfgVars, worldVars, localVars, panicked, store0>>

\* l.171-181
CreateConfigMap ==
    /\ pc = "reconcile"
    /\ ~configMapExists
    /\ ~skipCMCreation
    /\ \E result \in CreateResults :
        /\ store' = IF result = "ok" THEN Ptr([Data |-> data]) ELSE store
        /\ calls' = Append(calls, [op |-> "Create", result |-> result])
        /\ log' = Append(log, IF result = "ok" THEN "Created configmap"
                                               ELSE "Error creating configmap")
    /\ pc' = "returned"
    /\ UNCHANGED <<cfgVars, worldVars, localVars, panicked, store0>>

\* l.184-188: the second Get, for the object to update
RetrieveConfigMap ==
    /\ pc = "reconcile"
    /\ configMapExists
    /\ \E result \in GetResults :
        /\ calls' = Append(calls, [op |-> "Get", result |-> result])
        /\ IF result = "ok"
           THEN /\ cm' = store
                /\ pc' = "update"
                /\ log' = log
           ELSE /\ cm' = cm
                /\ pc' = "returned"
                /\ log' = Append(log, "Error retrieving configmap")
    /\ UNCHANGED <<cfgVars, worldVars, store, records, idx, caPriorities,
                   configMapExists, data, panicked, store0>>

\* faulty variant of WithData: the new text is appended to the text the object holds
WithDataAppended(object, d) ==
    [object EXCEPT !.Data =
        [k \in DOMAIN d |-> IF k \in DOMAIN object.Data THEN object.Data[k] \o d[k] ELSE d[k]]]

\* faulty variant of WithData: the new keys are merged into the old payload
WithDataMerged(object, d) == [object EXCEPT !.Data = d @@ object.Data]

\* l.189: cm.Data = data
WithData(object, d) == [object EXCEPT !.Data = d]

\* what the store answers to an Update
UpdateResults == {IF store = Nil THEN "NotFound" ELSE "ok", "error"}

\* l.189-195
UpdateConfigMap ==
    /\ pc = "update"
    /\ \E result \in UpdateResults :
        /\ store' = IF result = "ok" THEN Ptr(WithData(Deref(cm), data)) ELSE store
        /\ calls' = Append(calls, [op |-> "Update", result |-> result])
        /\ log' = Append(log, IF result = "ok" THEN "Updated configmap"
                                               ELSE "Error updating configmap")
    /\ pc' = "returned"
    /\ UNCHANGED <<cfgVars, worldVars, localVars, panicked, store0>>

\* ------------------------------------------------------ main, l.60 to l.66
\* mainLoop has returned and its locals are gone; main sleeps and goes back
\* to the head of its loop.  What the sources delivered and what the cycle
\* printed and requested belong to the cycle that is over.  The map the
\* cycle filled stays as it is: only l.71 of the next call makes a new one.
Sleep ==
    /\ pc = "returned"
    /\ ~debug
    /\ pc' = "main"
    /\ groups' = <<>>
    /\ subnetFree' = [s \in SubnetIds |-> 0]
    /\ records' = <<>>
    /\ idx' = 1
    /\ configMapExists' = FALSE
    /\ data' = EmptyMap
    /\ cm' = Nil
    /\ log' = <<>>
    /\ calls' = <<>>
    /\ store0' = store
    /\ UNCHANGED <<cfgVars, store, panicked, caPriorities>>

\* l.63-65: in debug mode main leaves the loop and the process ends
Exit ==
    /\ pc = "returned"
    /\ debug
    /\ log' = Append(log, "DEBUG mode: exiting...")
    /\ pc' = "exited"
    /\ UNCHANGED <<cfgVars, worldVars, localVars, store, panicked, calls, store0>>

Next ==
    \/ RunCycle
    \/ awsSearchEC2ASGByName
    \/ EvalASG
    \/ BuildKubeClient
    \/ GetConfigMap
    \/ SaveConfig
    \/ SkipCreation
    \/ CreateConfigMap
    \/ RetrieveConfigMap
    \/ UpdateConfigMap
    \/ Sleep
    \/ Exit

Spec == Init /\ [][Next]_vars


\* ================================================================ claims
\* the range loop of this cycle has run to its end
EvaluationDone ==
    \/ pc \in {"lookup", "save", "reconcile", "update", "returned", "exited"}
    \/ pc = "range" /\ idx > Len(records)

\* mainLoop has returned from this cycle
CycleOver == pc \in {"returned", "exited"}

\* the ASG passes the name filter and its resolved template name the template filter
PassesFilters(asg) ==
    /\ Contains(asg.AutoScalingGroupName, asgContains)
    /\ HasTemplate(asg)
    /\ Contains(ltNameOf(asg), ltContains)

\* the positions <<key, i>> of the tier map that hold name
Occurrences(name) ==
    {p \in UNION {{<<key, i>> : i \in DOMAIN caPriorities[key]} : key \in DOMAIN caPriorities} :
        caPriorities[p[1]][p[2]] = name}

TiersOf(name) == {p[1] : p \in Occurrences(name)}

\* the sum of availableAddressCount over the first n subnet ids
RECURSIVE ScoreUpTo(_, _)
ScoreUpTo(ids, n) ==
    IF n = 0 THEN 0
    ELSE ScoreUpTo(ids, n - 1) + (IF ids[n] \in DOMAIN subnetFree THEN subnetFree[ids[n]] ELSE 0)

CapacityScore(asg) ==
    ScoreUpTo(Split(asg.VPCZoneIdentifier), Len(Split(asg.VPCZoneIdentifier)))

RECURSIVE TextLines(_)
TextLines(text) ==
    LET k == IndexFrom(text, "\n", 1) IN
    IF text = <<>> THEN <<>>
    ELSE IF k = 0 THEN <<text>>
    ELSE <<SubSeq(text, 1, k - 1)>> \o TextLines(SubSeq(text, k + 1, Len(text)))

DigitValue(c) == CHOOSE d \in 0..9 : DigitChars[d + 1] = c

RECURSIVE ParseInt(_)
ParseInt(digits) ==
    IF digits = <<>> THEN 0
    ELSE 10 * ParseInt(SubSeq(digits, 1, Len(digits) - 1)) + DigitValue(digits[Len(digits)])

\* a block starts with the line "<score>:", its entries start with a blank
IsHeader(line) == line # <<>> /\ line[1] # " "

RECURSIVE HeaderKeys(_)
HeaderKeys(lines) ==
    IF lines = <<>> THEN <<>>
    ELSE IF IsHeader(Head(lines))
    THEN <<ParseInt(SubSeq(Head(lines), 1, Len(Head(lines)) - 1))>> \o HeaderKeys(Tail(lines))
    ELSE HeaderKeys(Tail(lines))

Rendered == "priorities" \in DOMAIN data

\* the scores of the blocks of the rendered text, in the order of the text
BlockKeys == HeaderKeys(TextLines(data["priorities"]))

EndsWith(text, suffix) ==
    /\ Len(text) >= Len(suffix)
    /\ SubSeq(text, Len(text) - Len(suffix) + 1, Len(text)) = suffix

\* C2: in the rendered text the blocks of the computed tiers come in strictly
\* descending order of score, one block per tier; with catchAll the text ends
\* with the block "1:" / "  - .*", a block of its own after all computed
\* tiers, also when a computed tier has score 1 or less.
C2_DescendingTiersCatchAllLast ==
    Rendered =>
        LET keys == BlockKeys
            computed == IF catchAll THEN Len(keys) - 1 ELSE Len(keys)
        IN  /\ computed = Cardinality(DOMAIN caPriorities)
            /\ \A i \in 1..computed : keys[i] \in DOMAIN caPriorities
            /\ \A i \in 1..(computed - 1) : keys[i] > keys[i + 1]
            /\ catchAll =>
                  /\ EndsWith(data["priorities"], CatchAllBlock)
                  /\ keys[Len(keys)] = 1

\* a listing with the computed tiers 1 and 0 followed by the catch-all block
C2_Witness ==
    /\ Rendered
    /\ catchAll
    /\ BlockKeys = <<1, 0, 1>>

\* the store operations of this cycle that write
Writes == {i \in DOMAIN calls : calls[i].op \in {"Create", "Update"}}

\* the lines of the log that report on the store
RECURSIVE StoreReports(_)
StoreReports(lines) ==
    IF lines = <<>> THEN <<>>
    ELSE IF Head(lines) \in {"Skipping creation of configmap", "Created configmap",
                             "Error creating configmap", "Error retrieving configmap",
                             "Updated configmap", "Error updating configmap"}
    THEN <<Head(lines)>> \o StoreReports(Tail(lines))
    ELSE StoreReports(Tail(lines))

LookupResult == IF calls = <<>> THEN "none" ELSE calls[1].result

\* C3: when the lookup returned NotFound and skipCMCreation is set, the cycle
\* sends no Create and no Update, the store is as it was when the cycle
\* started, and at the end only the skipped creation is reported.
C3_SkipCreationWritesNothing ==
    (LookupResult = "NotFound" /\ skipCMCreation) =>
        /\ Writes = {}
        /\ store = store0
        /\ CycleOver => StoreReports(log) = <<"Skipping creation of configmap">>

C3_Witness ==
    /\ pc = "returned"
    /\ LookupResult = "NotFound"
    /\ skipCMCreation
    /\ "priorities" \in DOMAIN data

\* C4: when the lookup failed with a transport or permission error, the
\* cycle sends no Create and no Update.
C4_LookupErrorNoWrite ==
    LookupResult = "error" => Writes = {}

\* C5: when the listing of the ASGs failed, the cycle writes no listing to
\* the store.
C5_ListFailureNoWrite ==
    (\E i \in DOMAIN log : log[i] = "Error searching EC2 ASGs by name") =>
        /\ Writes = {}
        /\ store = store0

\* C6: an ASG without any template reference is left out and the cycle goes
\* on: the process does not stop at that record, and the record is in no tier.
C6_MissingTemplateExcluded ==
    \A k \in 1..Len(records) :
        ~HasTemplate(records[k]) =>
            /\ ~(pc = "crashed" /\ idx = k)
            /\ Occurrences(records[k].AutoScalingGroupName) = {}

\* C7: a failed subnet lookup ends the evaluation of that ASG only: the
\* process does not stop at it, and the other ASGs are still tiered.
C7_SubnetFailureSkipsAsg ==
    ~(pc = "crashed" /\ panicked = "index out of range: subnet.Subnets[0]")

\* C8: no failure in a cycle ends the process.
C8_NoFailureCrashes == pc # "crashed"

\* C9: per cycle the store sees one Get, then at most one write: a Create only
\* after NotFound, an Update only after the Get found the object, nothing twice.
C9_ReconcileStateMachine ==
    /\ Len(calls) <= 2
    /\ calls # <<>> => calls[1].op = "Get"
    /\ \A i \in DOMAIN calls : i > 1 => calls[i].op # "Get"
    /\ \A i \in DOMAIN calls : calls[i].op = "Create" => LookupResult = "NotFound"
    /\ \A i \in DOMAIN calls : calls[i].op = "Update" => LookupResult = "ok"

\* the cycle ended with a Create or an Update that the store accepted
WroteOk ==
    /\ CycleOver
    /\ calls # <<>>
    /\ calls[Len(calls)].op \in {"Create", "Update"}
    /\ calls[Len(calls)].result = "ok"

\* C10: after a cycle whose Create or Update succeeded, the payload of the
\* object in the store is the one key "priorities" with the rendered text;
\* nothing of the payload the object had before remains.
C10_StoreHoldsExactlyThePayload ==
    WroteOk =>
        /\ store # Nil
        /\ DOMAIN Deref(store).Data = {"priorities"}
        /\ Deref(store).Data["priorities"] = data["priorities"]
        /\ \E keys \in KeyOrders(caPriorities) :
              data["priorities"] =
                  TierBlocks(SortDesc(keys), caPriorities)
                      \o (IF catchAll THEN CatchAllBlock ELSE <<>>)

\* an Update replaced an object that held the keys "priorities" and "legacy"
C10_Witness ==
    /\ WroteOk
    /\ calls[Len(calls)].op = "Update"
    /\ store0 = Ptr(StaleObject)
    /\ Cardinality(DOMAIN caPriorities) = 2

\* ---- the listing as a function of what one cycle fetched
\* the tier map the range loop builds from recs, starting from m
RECURSIVE TiersAfter(_, _)
TiersAfter(recs, m) ==
    IF recs = <<>> THEN m
    ELSE LET asg == Head(recs) IN
         IF HasTemplate(asg) /\ Contains(ltNameOf(asg), ltContains)
         THEN TiersAfter(Tail(recs), AddToTier(m, freeIPsOf(asg), asg.AutoScalingGroupName))
         ELSE TiersAfter(Tail(recs), m)

\* the tier map of a cycle in which the Group Source delivers fleet
TiersFor(fleet) == TiersAfter(MatchingGroups(fleet, asgContains), EmptyMap)

\* the orders in which the Group Source may deliver the same groups
Reorderings(fleet) ==
    {[i \in 1..Len(fleet) |-> fleet[p[i]]] :
        p \in {q \in [1..Len(fleet) -> 1..Len(fleet)] :
                  \A i, j \in 1..Len(fleet) : i # j => q[i] # q[j]}}

\* C11: the rendered text does not depend on the order in which the Group
\* Source returns the groups: a cycle over the same groups and the same subnet
\* counts, delivered in any other order, renders the text of this cycle.
C11_TextIndependentOfGroupOrder ==
    Rendered =>
        \A fleet \in Reorderings(groups) :
            \A keys \in KeyOrders(TiersFor(fleet)) :
                RenderPriorities(keys, TiersFor(fleet), catchAll) = data["priorities"]

\* C12: the rendered text is determined by the groups in their order, the
\* subnet counts and the configuration: whatever order the tier map yields
\* its keys in, the text is the one of this cycle.
C12_TextDeterminedByInputs ==
    Rendered =>
        LET tiers == TiersFor(groups) IN
        \A keys \in KeyOrders(tiers) :
            TierBlocks(SortDesc(keys), tiers) \o (IF catchAll THEN CatchAllBlock ELSE <<>>)
                = data["priorities"]

\* a listing of two tiers, whose keys the map can yield in two orders
C12_Witness ==
    /\ Rendered
    /\ Cardinality(DOMAIN caPriorities) = 2
    /\ pc = "reconcile"

\* the object in the store held, when this cycle started, the payload this
\* cycle rendered
AlreadyHolds ==
    /\ Rendered
    /\ store0 # Nil
    /\ Deref(store0).Data = data

\* the store answered every request of this cycle
NoTransportError == \A i \in DOMAIN calls : calls[i].result # "error"

\* C13: a reconcile of the payload the object already holds, which the store
\* answers, takes the path Get (found), Get, Update, succeeds, and leaves the
\* payload in the store as it was: the given payload.  A second reconcile of
\* that payload starts from the same store and ends in it.
C13_ReconcileIdempotent ==
    (CycleOver /\ AlreadyHolds /\ NoTransportError) =>
        /\ calls = <<[op |-> "Get", result |-> "ok"],
                     [op |-> "Get", result |-> "ok"],
                     [op |-> "Update", result |-> "ok"]>>
        /\ store = store0
        /\ Deref(store).Data = data

\* a cycle has updated an object that an earlier cycle had left with the
\* same listing of two tiers
C13_Witness ==
    /\ pc = "returned"
    /\ AlreadyHolds
    /\ WroteOk
    /\ Cardinality(DOMAIN caPriorities) = 2

\* C14: an ASG that passes the filters and has no subnets is evaluated
\* without an error and sits in the tier 0.
C14_EmptySubnetListScoresZero ==
    \A k \in 1..Len(records) :
        (/\ records[k].VPCZoneIdentifier = <<>>
         /\ HasTemplate(records[k])
         /\ Contains(ltNameOf(records[k]), ltContains)) =>
            /\ ~(pc = "crashed" /\ idx = k)
            /\ k < idx => TiersOf(records[k].AutoScalingGroupName) = {0}

\* a cycle is under way or over, and no ASG the Group Source delivered is
\* kept: each fails the name filter, or its template name the template filter
ZeroSelected ==
    /\ pc # "main"
    /\ \A k \in 1..Len(groups) :
          \/ ~Contains(groups[k].AutoScalingGroupName, asgContains)
          \/ HasTemplate(groups[k]) /\ ~Contains(ltNameOf(groups[k]), ltContains)

\* C15: a cycle that selects no ASG is not an error: its text is the
\* catch-all block with catchAll and the empty text without, and the text is
\* reconciled as any other: when the store answers, it is created or written
\* into the object, unless the object is absent and skipCMCreation is set.
C15_ZeroSelectedListing ==
    ZeroSelected =>
        /\ pc # "crashed"
        /\ Rendered => data["priorities"] = (IF catchAll THEN CatchAllBlock ELSE <<>>)
        /\ (CycleOver /\ Rendered /\ NoTransportError) =>
              \/ WroteOk /\ Deref(store).Data = data
              \/ skipCMCreation /\ LookupResult = "NotFound" /\ Writes = {}

\* groups were delivered, none was kept, and the catch-all text was written
C15_Witness ==
    /\ ZeroSelected
    /\ Len(groups) > 0
    /\ catchAll
    /\ WroteOk

\* C16: cycles do not overlap: a cycle starts only at the head of main's
\* loop, and the head of the loop is reached again only from the return of
\* mainLoop, that is after the lookups and the store requests of the cycle
\* before have been answered.
C16_CyclesDoNotOverlap ==
    [][/\ pc' = "list" => pc = "main"
       /\ pc' = "main" => pc = "returned"
       /\ pc' = "returned" => pc \in {"range", "reconcile", "update"}]_vars

\* a cycle starts after an earlier cycle has written its listing to the store
C16_Witness ==
    /\ pc = "list"
    /\ store0 # Nil
    /\ DOMAIN Deref(store0).Data = {"priorities"}

\* sub is a run of consecutive characters of s; the empty run is in every s
IsSubstring(sub, s) ==
    \E a \in 0..Len(s) : \E b \in a..Len(s) : SubSeq(s, a + 1, b) = sub

\* every name at a position of the tier map
TieredNames == UNION {{caPriorities[key][i] : i \in DOMAIN caPriorities[key]} : key \in DOMAIN caPriorities}

\* C17: in a cycle the tier map holds only names of ASGs of this cycle whose
\* name has the name filter as a substring and whose template name has the
\* template filter as a substring; an empty name filter keeps every ASG the
\* Group Source returned, and an empty template filter keeps every evaluated
\* ASG that has a template.
C17_OnlyPassingAsgsInTiers ==
    pc # "main" =>
        /\ \A name \in TieredNames :
              \E k \in 1..Len(groups) :
                  /\ groups[k].AutoScalingGroupName = name
                  /\ IsSubstring(asgContains, name)
                  /\ HasTemplate(groups[k])
                  /\ IsSubstring(ltContains, ltNameOf(groups[k]))
        /\ (asgContains = <<>> /\ pc # "list") => records = groups
        /\ ltContains = <<>> =>
              \A k \in 1..Len(records) :
                  (k < idx /\ HasTemplate(records[k])) =>
                      records[k].AutoScalingGroupName \in TieredNames

\* both filters are set, one ASG of the cycle is in a tier, and the cycle has
\* an ASG rejected by the name filter and one rejected by the template filter
C17_Witness ==
    /\ EvaluationDone
    /\ asgContains # <<>>
    /\ ltContains # <<>>
    /\ TieredNames # {}
    /\ \E k \in 1..Len(groups) : groups[k].AutoScalingGroupName \notin TieredNames

\* the names of the entry lines "  - <name>" of a priorities text, the
\* catch-all pattern left out
EntryNames(text) ==
    LET lines == TextLines(text) IN
    {SubSeq(lines[i], 5, Len(lines[i])) : i \in {j \in DOMAIN lines : ~IsHeader(lines[j])}} \ {<<".", "*">>}

\* C18: nothing of an earlier cycle is in the tiers or in the text of a
\* cycle: every entry of the tier map is an ASG evaluated in this cycle, keyed
\* by the sum of the free addresses its subnets report in this cycle, and the
\* text lists only names of ASGs the Group Source returned in this cycle.
C18_NoTierStateCarriedOver ==
    pc # "main" =>
        /\ \A key \in DOMAIN caPriorities : \A i \in DOMAIN caPriorities[key] :
              \E k \in 1..Len(records) :
                  /\ k < idx
                  /\ records[k].AutoScalingGroupName = caPriorities[key][i]
                  /\ key = CapacityScore(records[k])
        /\ Rendered =>
              LET lines == TextLines(data["priorities"]) IN
              /\ EntryNames(data["priorities"]) \subseteq {groups[k].AutoScalingGroupName : k \in 1..Len(groups)}
              /\ \A i \in DOMAIN HeaderKeys(lines) :
                    \/ HeaderKeys(lines)[i] \in {CapacityScore(groups[k]) : k \in 1..Len(groups)}
                    \/ catchAll /\ HeaderKeys(lines)[i] = 1

\* the store holds, from an earlier cycle, an ASG that this cycle's Group
\* Source no longer returns, and this cycle has rendered a text with entries
C18_Witness ==
    /\ Rendered
    /\ EntryNames(data["priorities"]) # {}
    /\ store0 # Nil
    /\ "priorities" \in DOMAIN Deref(store0).Data
    /\ \E name \in EntryNames(Deref(store0).Data["priorities"]) :
          \A k \in 1..Len(groups) : groups[k].AutoScalingGroupName # name

\* the requests of the cycle that are an Update
Updates == {i \in DOMAIN calls : calls[i].op = "Update"}

\* C19: when the lookup of a cycle found the ConfigMap, the cycle ends with
\* an Update that carries the rendered payload, with skipCMCreation set as
\* with skipCMCreation clear: nothing is skipped and nothing is created, and
\* only a failed retrieval of the object to update ends the cycle before the
\* Update.
C19_SkipFlagDoesNotSuppressUpdate ==
    (CycleOver /\ LookupResult = "ok") =>
        /\ "Skipping creation of configmap" \notin {log[i] : i \in DOMAIN log}
        /\ \A i \in DOMAIN calls : calls[i].op # "Create"
        /\ Len(calls) >= 2
        /\ calls[2].op = "Get"
        /\ calls[2].result = "ok" =>
              /\ Updates = {3}
              /\ calls[3].result = "ok" => Deref(store).Data = data
        /\ calls[2].result # "ok" => Updates = {}

\* skipCMCreation is set, the lookup found the ConfigMap and the Update of
\* the cycle went through
C19_Witness ==
    /\ skipCMCreation
    /\ LookupResult = "ok"
    /\ WroteOk
    /\ Updates = {3}
    /\ store # store0

====
